---- MODULE Spec2Model ----
(***************************************************************************)
(* Model of the fluentd log forwarder of internal/observability:           *)
(*   - the atomic-flag variant  (FluentLogger / SugaredLogger)             *)
(*   - the mutex variant        (FluentLogger / WrappedLogger)             *)
(* The transport client (fluent.Fluent) and the zap facade are external    *)
(* collaborators: they are modelled by what the code calls on them.        *)
(***************************************************************************)
EXTENDS Integers, Sequences, FiniteSets, TLC

(***************************************************************************)
(* Bounds of the model.                                                    *)
(***************************************************************************)
\* number of goroutines that use one handle
NThreads == 2

Threads == 1..NThreads

(***************************************************************************)
(* Text: a string is a sequence of one-character strings.                  *)
(***************************************************************************)
UpperChars == <<"A","B","C","D","E","F","G","H","I","J","K","L","M",
                "N","O","P","Q","R","S","T","U","V","W","X","Y","Z">>
LowerChars == <<"a","b","c","d","e","f","g","h","i","j","k","l","m",
                "n","o","p","q","r","s","t","u","v","w","x","y","z">>

IndexIn(seq, c) == IF \E i \in DOMAIN seq : seq[i] = c
                   THEN CHOOSE i \in DOMAIN seq : seq[i] = c
                   ELSE 0

\* bytes.ToLower / strings.ToLower on ASCII text
ToLower(s) == [i \in DOMAIN s |->
                 IF IndexIn(UpperChars, s[i]) # 0
                 THEN LowerChars[IndexIn(UpperChars, s[i])] ELSE s[i]]

\* strings.ToUpper on ASCII text
ToUpper(s) == [i \in DOMAIN s |->
                 IF IndexIn(LowerChars, s[i]) # 0
                 THEN UpperChars[IndexIn(LowerChars, s[i])] ELSE s[i]]

(***************************************************************************)
(* zapcore levels and parseLogLevel.                                       *)
(***************************************************************************)
DebugLevel  == -1
InfoLevel   == 0
WarnLevel   == 1
ErrorLevel  == 2
DPanicLevel == 3
PanicLevel  == 4
FatalLevel  == 5

defaultLogLevel == DebugLevel
compatibleLevelWarningUpperCase == <<"W","A","R","N","I","N","G">>

\* zapcore.Level.unmarshalText: the exact spellings the switch accepts
unmarshalText(text) ==
  CASE text \in {<<"d","e","b","u","g">>, <<"D","E","B","U","G">>}
         -> [ok |-> TRUE, level |-> DebugLevel]
    [] text \in {<<"i","n","f","o">>, <<"I","N","F","O">>, <<>>}
         -> [ok |-> TRUE, level |-> InfoLevel]
    [] text \in {<<"w","a","r","n">>, <<"W","A","R","N">>}
         -> [ok |-> TRUE, level |-> WarnLevel]
    [] text \in {<<"e","r","r","o","r">>, <<"E","R","R","O","R">>}
         -> [ok |-> TRUE, level |-> ErrorLevel]
    [] text \in {<<"d","p","a","n","i","c">>, <<"D","P","A","N","I","C">>}
         -> [ok |-> TRUE, level |-> DPanicLevel]
    [] text \in {<<"p","a","n","i","c">>, <<"P","A","N","I","C">>}
         -> [ok |-> TRUE, level |-> PanicLevel]
    [] text \in {<<"f","a","t","a","l">>, <<"F","A","T","A","L">>}
         -> [ok |-> TRUE, level |-> FatalLevel]
    [] OTHER -> [ok |-> FALSE, level |-> 0]

\* zapcore.Level.UnmarshalText on a level variable holding `level`:
\* the text as given, then lower-cased; on failure the variable is untouched
UnmarshalText(level, text) ==
  LET r1 == unmarshalText(text)
      r2 == unmarshalText(ToLower(text))
  IN  IF r1.ok THEN [err |-> FALSE, level |-> r1.level]
      ELSE IF r2.ok THEN [err |-> FALSE, level |-> r2.level]
      ELSE [err |-> TRUE, level |-> level]

\* parseLogLevel(lvl)
parseLogLevel(lvl) ==
  LET r == UnmarshalText(defaultLogLevel, lvl)
  IN  IF r.err /\ ToUpper(lvl) = compatibleLevelWarningUpperCase
      THEN WarnLevel
      ELSE r.level

(***************************************************************************)
(* JSON text: a payload is a sequence of tokens <<kind, text>>.            *)
(* Kinds: "{" "}" "[" "]" ":" "," "str" "num" "true" "false" "null" "ws"   *)
(* and "bad" (a byte sequence that is no JSON token).                      *)
(***************************************************************************)
Tok(k, s) == <<k, s>>
LB    == Tok("{", "")
RB    == Tok("}", "")
LSQ   == Tok("[", "")
RSQ   == Tok("]", "")
COLON == Tok(":", "")
COMMA == Tok(",", "")
NL    == Tok("ws", "\n")
NULL  == Tok("null", "")
Str(s) == Tok("str", s)
Num(s) == Tok("num", s)

IsScalar(tok) == tok[1] \in {"str", "num", "true", "false", "null"}

\* the Go value json.Unmarshal stores for a scalar token in an interface{}
ScalarValue(tok) ==
  CASE tok[1] = "str"   -> <<"string", tok[2]>>
    [] tok[1] = "num"   -> <<"float64", tok[2]>>
    [] tok[1] = "true"  -> <<"bool", "true">>
    [] tok[1] = "false" -> <<"bool", "false">>
    [] OTHER            -> <<"nil", "">>

Fail == [ok |-> FALSE, v |-> <<"nil", "">>, next |-> 0]

\* m with key k set to v: a later duplicate key replaces the earlier value
MapSet(m, k, v) == [x \in DOMAIN m \cup {k} |-> IF x = k THEN v ELSE m[x]]

RECURSIVE ParseValue(_, _), ParseMembers(_, _, _), ParseElements(_, _, _)

\* one JSON value starting at toks[i]: [ok, v, next]
ParseValue(toks, i) ==
  IF i > Len(toks) THEN Fail
  ELSE IF IsScalar(toks[i])
       THEN [ok |-> TRUE, v |-> ScalarValue(toks[i]), next |-> i + 1]
  ELSE IF toks[i] = LB
       THEN IF i + 1 <= Len(toks) /\ toks[i + 1] = RB
            THEN [ok |-> TRUE, v |-> <<"map", <<>>>>, next |-> i + 2]
            ELSE ParseMembers(toks, i + 1, <<>>)
  ELSE IF toks[i] = LSQ
       THEN IF i + 1 <= Len(toks) /\ toks[i + 1] = RSQ
            THEN [ok |-> TRUE, v |-> <<"slice", <<>>>>, next |-> i + 2]
            ELSE ParseElements(toks, i + 1, <<>>)
  ELSE Fail

\* members of an object from toks[i] (a key is expected), collected in acc
ParseMembers(toks, i, acc) ==
  IF i + 1 > Len(toks) \/ toks[i][1] # "str" \/ toks[i + 1] # COLON THEN Fail
  ELSE LET r == ParseValue(toks, i + 2)
       IN  IF ~r.ok \/ r.next > Len(toks) THEN Fail
           ELSE LET m == MapSet(acc, toks[i][2], r.v)
                IN  IF toks[r.next] = RB
                    THEN [ok |-> TRUE, v |-> <<"map", m>>, next |-> r.next + 1]
                    ELSE IF toks[r.next] = COMMA
                    THEN ParseMembers(toks, r.next + 1, m)
                    ELSE Fail

\* elements of an array from toks[i], collected in acc
ParseElements(toks, i, acc) ==
  LET r == ParseValue(toks, i)
  IN  IF ~r.ok \/ r.next > Len(toks) THEN Fail
      ELSE IF toks[r.next] = RSQ
      THEN [ok |-> TRUE, v |-> <<"slice", Append(acc, r.v)>>, next |-> r.next + 1]
      ELSE IF toks[r.next] = COMMA
      THEN ParseElements(toks, r.next + 1, Append(acc, r.v))
      ELSE Fail

NotWs(tok) == tok[1] # "ws"

\* json.Unmarshal(p, &entry) with entry a nil map[string]interface{}:
\* [err, isNil, m].  "null" leaves the map nil without an error; any
\* other value that is not an object is an error.
Unmarshal(p) ==
  LET toks == SelectSeq(p, NotWs)
      r    == ParseValue(toks, 1)
      bad  == [err |-> TRUE, isNil |-> TRUE, m |-> <<>>]
  IN  IF ~r.ok \/ r.next # Len(toks) + 1 THEN bad
      ELSE IF r.v[1] = "map" THEN [err |-> FALSE, isNil |-> FALSE, m |-> r.v[2]]
      ELSE IF r.v[1] = "nil" THEN [err |-> FALSE, isNil |-> TRUE, m |-> <<>>]
      ELSE bad

(***************************************************************************)
(* The facade's encoder (zapcore.NewJSONEncoder with the EncoderConfig of  *)
(* each constructor): level, time, message, then the call's fields, then   *)
(* the line ending.                                                        *)
(***************************************************************************)
\* zapcore.LowercaseLevelEncoder
LevelString(l) ==
  CASE l = DebugLevel  -> "debug"
    [] l = InfoLevel   -> "info"
    [] l = WarnLevel   -> "warn"
    [] l = ErrorLevel  -> "error"
    [] l = DPanicLevel -> "dpanic"
    [] l = PanicLevel  -> "panic"
    [] OTHER           -> "fatal"

\* EncoderConfig.TimeKey of the two constructors
TimeKey(v) == IF v = "atomic" THEN "timestamp" ELSE "logging_timestamp"

RECURSIVE EncodeFields(_)
\* the key/value pairs of a sugared call, each as  ,"key":value
EncodeFields(fields) ==
  IF fields = <<>> THEN <<>>
  ELSE <<COMMA, Str(Head(fields)[1]), COLON, Head(fields)[2]>>
         \o EncodeFields(Tail(fields))

\* jsonEncoder.EncodeEntry: the bytes the core hands to the sink's Write
EncodeEntry(v, lvl, msg, fields) ==
  <<LB, Str("severity"), COLON, Str(LevelString(lvl)), COMMA,
        Str(TimeKey(v)), COLON, Str("T"), COMMA,
        Str("message"), COLON, Str(msg)>>
    \o EncodeFields(fields) \o <<RB, NL>>

(***************************************************************************)
(* Errors are chains of messages, outermost first (fmt.Errorf "%w").       *)
(***************************************************************************)
NoErr == <<>>
ErrLoggerClosed == <<"logger is closed">>
ErrTransport == <<"transport error">>
ErrDecode == <<"log decode failed", "json">>
ErrFlushTimeout == <<"fluent log flush timed out">>
Wrap(msg, e) == <<msg>> \o e

\* the message Write wraps a failed post in
DeliveryMsg(v) == IF v = "atomic" THEN "log delivery failed"
                                  ELSE "failed to send log entry"

(***************************************************************************)
(* The environment of the two programs (cmd/worker and the metrics         *)
(* collector), and the parsers they apply to it.  A variable's value is a  *)
(* string; Bytes gives its characters.                                     *)
(***************************************************************************)
\* the values tried for a variable; "" is an unset variable
EnvValues == {"", "tcp", "unix", "udp", "8080", "-1", "abc", "3s", "1.5m", "TRUE", "t"}

\* the characters of a value, and of the defaults getEnv falls back to
Bytes(s) ==
  CASE s = "" -> <<>>
    [] s = "tcp" -> <<"t", "c", "p">>
    [] s = "unix" -> <<"u", "n", "i", "x">>
    [] s = "udp" -> <<"u", "d", "p">>
    [] s = "8080" -> <<"8", "0", "8", "0">>
    [] s = "-1" -> <<"-", "1">>
    [] s = "abc" -> <<"a", "b", "c">>
    [] s = "3s" -> <<"3", "s">>
    [] s = "1.5m" -> <<"1", ".", "5", "m">>
    [] s = "TRUE" -> <<"T", "R", "U", "E">>
    [] s = "t" -> <<"t">>
    [] s = "24224" -> <<"2", "4", "2", "2", "4">>
    [] s = "true" -> <<"t", "r", "u", "e">>
    [] s = "8192" -> <<"8", "1", "9", "2">>
    [] s = "13" -> <<"1", "3">>
    [] s = "500" -> <<"5", "0", "0">>

DigitChars == <<"0", "1", "2", "3", "4", "5", "6", "7", "8", "9">>
IsDigit(c) == \E i \in 1..10 : DigitChars[i] = c
DigitOf(c) == (CHOOSE i \in 1..10 : DigitChars[i] = c) - 1

RECURSIVE DigitsValue(_)
\* the number a run of digits denotes (0 for the empty run)
DigitsValue(ds) ==
  IF ds = <<>> THEN 0
  ELSE 10 * DigitsValue(SubSeq(ds, 1, Len(ds) - 1)) + DigitOf(ds[Len(ds)])

\* strconv.Atoi: [err, v]; an optional sign, then digits only; v is 0 on
\* a syntax error
Atoi(cs) ==
  LET signed == cs # <<>> /\ cs[1] \in {"+", "-"}
      ds     == IF signed THEN Tail(cs) ELSE cs
  IN  IF ds = <<>> \/ \E i \in 1..Len(ds) : ~IsDigit(ds[i])
      THEN [err |-> TRUE, v |-> 0]
      ELSE [err |-> FALSE,
            v |-> IF signed /\ cs[1] = "-" THEN 0 - DigitsValue(ds)
                                           ELSE DigitsValue(ds)]

\* strconv.ParseBool: [err, v]
ParseBool(cs) ==
  IF cs \in {<<"1">>, <<"t">>, <<"T">>, <<"T","R","U","E">>,
             <<"t","r","u","e">>, <<"T","r","u","e">>}
  THEN [err |-> FALSE, v |-> TRUE]
  ELSE IF cs \in {<<"0">>, <<"f">>, <<"F">>, <<"F","A","L","S","E">>,
                  <<"f","a","l","s","e">>, <<"F","a","l","s","e">>}
  THEN [err |-> FALSE, v |-> FALSE]
  ELSE [err |-> TRUE, v |-> FALSE]

\* parseBool of cmd/worker on the value of its variable: [err, v]
parseBool(cs) ==
  LET val == ToLower(cs)
  IN  IF val = <<"t","r","u","e">> THEN [err |-> FALSE, v |-> TRUE]
      ELSE IF val = <<"f","a","l","s","e">> THEN [err |-> FALSE, v |-> FALSE]
      ELSE IF val = <<>> THEN [err |-> FALSE, v |-> FALSE]
      ELSE [err |-> TRUE, v |-> FALSE]

(***************************************************************************)
(* Natural numbers beyond the machine integers, for time.Duration (int64   *)
(* nanoseconds) and the uint64 and float64 arithmetic of                   *)
(* time.ParseDuration.  A number is the sequence of its digits in a base   *)
(* b, most significant first; zero has no digits.  Base 10 is what is      *)
(* read and shown, base 10^4 serves the integer arithmetic and base 2^14   *)
(* the float64 values.                                                     *)
(***************************************************************************)
Front(a) == IF a = <<>> THEN <<>> ELSE SubSeq(a, 1, Len(a) - 1)
Last(a) == IF a = <<>> THEN 0 ELSE a[Len(a)]

\* a without its leading zeros
Norm(a) ==
  LET nz == {i \in 1..Len(a) : a[i] # 0}
  IN  IF nz = {} THEN <<>>
      ELSE SubSeq(a, CHOOSE i \in nz : \A k \in nz : i <= k, Len(a))

RECURSIVE NatOf(_, _)
\* the digits of the machine integer n
NatOf(b, n) == IF n = 0 THEN <<>> ELSE Append(NatOf(b, n \div b), n % b)

\* x < y, in any one base
Less(x, y) ==
  \/ Len(x) < Len(y)
  \/ /\ Len(x) = Len(y)
     /\ \E i \in 1..Len(x) :
          x[i] < y[i] /\ \A k \in 1..(i - 1) : x[k] = y[k]

RECURSIVE AddC(_, _, _, _)
AddC(b, x, y, c) ==
  IF Len(x) + Len(y) = 0 THEN NatOf(b, c)
  ELSE LET s == Last(x) + Last(y) + c
       IN  Append(AddC(b, Front(x), Front(y), s \div b), s % b)

\* x + y
Add(b, x, y) ==
  IF x = <<>> THEN y ELSE IF y = <<>> THEN x ELSE AddC(b, x, y, 0)

RECURSIVE SubB(_, _, _, _)
SubB(b, x, y, br) ==
  IF x = <<>> THEN <<>>
  ELSE LET d == Last(x) - Last(y) - br
       IN  Append(SubB(b, Front(x), Front(y), IF d < 0 THEN 1 ELSE 0),
                  IF d < 0 THEN d + b ELSE d)

\* x - y, for y <= x
Sub(b, x, y) == IF y = <<>> THEN x ELSE Norm(SubB(b, x, y, 0))

RECURSIVE MulC(_, _, _, _)
MulC(b, x, k, c) ==
  IF x = <<>> THEN NatOf(b, c)
  ELSE LET p == Last(x) * k + c
       IN  Append(MulC(b, Front(x), k, p \div b), p % b)

\* x * k for a machine integer k below 2^16
MulSmall(b, x, k) == IF x = <<>> \/ k = 0 THEN <<>> ELSE MulC(b, x, k, 0)

RECURSIVE Mul(_, _, _)
\* x * y
Mul(b, x, y) ==
  IF x = <<>> \/ y = <<>> THEN <<>>
  ELSE LET hi == Mul(b, x, Front(y))
       IN  IF hi = <<>> THEN MulSmall(b, x, Last(y))
           ELSE Add(b, Append(hi, 0), MulSmall(b, x, Last(y)))

\* the digit of a quotient: the k with k * y <= r < (k + 1) * y, for
\* r < b * y and a y whose leading digit is at least b / 2; the leading
\* digits of r and y give k to within 2
QuotientDigit(b, r, y) ==
  LET top == IF Len(r) > Len(y) THEN r[1] * b + r[2]
             ELSE IF Len(r) = Len(y) THEN r[1] ELSE 0
      est == IF top \div y[1] > b - 1 THEN b - 1 ELSE top \div y[1]
  IN  CHOOSE k \in (est - 2)..est :
        /\ k >= 0
        /\ ~Less(r, MulSmall(b, y, k))
        /\ Less(r, MulSmall(b, y, k + 1))

RECURSIVE LongDivision(_, _, _, _)
\* the division of the first n digits of x by y, digit by digit
LongDivision(b, x, y, n) ==
  IF n < Len(y) THEN [q |-> <<>>, r |-> Norm(SubSeq(x, 1, n))]
  ELSE LET p  == LongDivision(b, x, y, n - 1)
           r1 == Norm(Append(p.r, x[n]))
           k  == QuotientDigit(b, r1, y)
       IN  [q |-> Norm(Append(p.q, k)), r |-> Sub(b, r1, MulSmall(b, y, k))]

RECURSIVE DivSmall(_, _, _)
\* [q, r] with x = q * k + r and r < k, for a machine integer k
DivSmall(b, x, k) ==
  IF x = <<>> THEN [q |-> <<>>, r |-> 0]
  ELSE LET p == DivSmall(b, Front(x), k)
           t == p.r * b + Last(x)
       IN  [q |-> Norm(Append(p.q, t \div k)), r |-> t % k]

\* [q, r] with x = q * y + r and r < y, for a y whose leading digit is at
\* least b / 2
Divided(b, x, y) == LongDivision(b, x, y, Len(x))

\* d, the division of f * x by f * y, as the division of x by y
Unscaled(b, d, f) == [q |-> d.q, r |-> DivSmall(b, d.r, f).q]

\* [q, r] with x = q * y + r and r < y, for y > 0; x and y are scaled by
\* f to give y its leading digit of at least b / 2
DivMod(b, x, y) ==
  IF Less(x, y) THEN [q |-> <<>>, r |-> x]
  ELSE LET f == b \div (y[1] + 1)
       IN  Unscaled(b, Divided(b, MulSmall(b, x, f), MulSmall(b, y, f)), f)

RECURSIVE Rebase(_, _, _)
\* the digits in base to of the number with the digits x in base from
Rebase(from, to, x) ==
  IF x = <<>> THEN <<>>
  ELSE LET hi == Rebase(from, to, Front(x))
       IN  Add(to, MulSmall(to, hi, from), NatOf(to, Last(x)))

\* the base of the integer arithmetic
Myriad == 10000

\* a number in base 10 brought to base 10^4: four digits make one
FromDigits(ds) ==
  LET D(i) == IF i < Len(ds) THEN ds[Len(ds) - i] ELSE 0
      n    == (Len(ds) + 3) \div 4
  IN  [j \in 1..n |->
         LET r == 4 * (n - j)
         IN  D(r) + 10 * D(r + 1) + 100 * D(r + 2) + 1000 * D(r + 3)]

\* a number in base 10^4 brought to base 10
ToDigits(x) ==
  Norm([i \in 1..(4 * Len(x)) |->
          (x[(i + 3) \div 4] \div (10 ^ (3 - ((i - 1) % 4)))) % 10])

\* 2^63 and 2^64: an int64 holds up to 2^63 - 1, a uint64 wraps at 2^64
Two63 == FromDigits(<<9,2,2,3,3,7,2,0,3,6,8,5,4,7,7,5,8,0,8>>)
Two64 == FromDigits(<<1,8,4,4,6,7,4,4,0,7,3,7,0,9,5,5,1,6,1,6>>)

(***************************************************************************)
(* float64: a positive value is [m, e], m * 2^e with 2^52 <= m < 2^53,     *)
(* and zero has m = 0; m is in base 2^14.  Every operation rounds its      *)
(* exact result to the nearest such value, ties to the even m.  The        *)
(* exponent's range is not modelled: time.ParseDuration exceeds it only    *)
(* with results below 1, which the conversion to uint64 makes 0.           *)
(***************************************************************************)
LimbBits == 14
Limb == 2 ^ LimbBits

\* the number of binary digits of x > 0
BitLen(x) ==
  LimbBits * (Len(x) - 1)
    + (CHOOSE k \in 1..LimbBits : 2 ^ (k - 1) <= x[1] /\ x[1] < 2 ^ k)

\* x * 2^k
ShiftL(x, k) ==
  IF x = <<>> THEN <<>>
  ELSE MulSmall(Limb, x, 2 ^ (k % LimbBits))
         \o [i \in 1..(k \div LimbBits) |-> 0]

Two52 == ShiftL(<<1>>, 52)
Two53 == ShiftL(<<1>>, 53)

\* [m, e], or when up the next float64 above it
Nearest(m, e, up) ==
  IF ~up THEN [m |-> m, e |-> e]
  ELSE IF Add(Limb, m, <<1>>) = Two53 THEN [m |-> Two52, e |-> e + 1]
  ELSE [m |-> Add(Limb, m, <<1>>), e |-> e]

\* the float64 nearest to (d.q + d.r / y) * 2^e, d being a division by y
\* with 2^52 <= d.q < 2^54: what lies below the last binary digit kept
\* rounds up when it is above a half, or is a half and the digit is odd
Rounded(d, y, e) ==
  IF Less(d.q, Two53)
  THEN Nearest(d.q, e,
               \/ Less(y, MulSmall(Limb, d.r, 2))
               \/ MulSmall(Limb, d.r, 2) = y /\ Last(d.q) % 2 = 1)
  ELSE Nearest(DivSmall(Limb, d.q, 2).q, e + 1,
               Last(d.q) % 2 = 1 /\ (d.r # <<>> \/ Last(d.q) % 4 = 3))

\* the float64 nearest to p / q, for p > 0 and q > 0 and the e that puts
\* p / (q * 2^e) between 2^52 and 2^54
Scaled(p, q, e) ==
  Rounded(DivMod(Limb, ShiftL(p, IF e < 0 THEN 0 - e ELSE 0),
                       ShiftL(q, IF e > 0 THEN e ELSE 0)),
          ShiftL(q, IF e > 0 THEN e ELSE 0), e)

\* the float64 nearest to p / q, for q > 0
RoundQ(p, q) ==
  IF p = <<>> THEN [m |-> <<>>, e |-> 0]
  ELSE Scaled(p, q, BitLen(p) - BitLen(q) - 53)

\* float64(n) of a uint64 n given in base 10^4
Float64(n) == RoundQ(Rebase(Myriad, Limb, n), <<1>>)

\* x * y in float64
FMul(x, y) ==
  IF x.m = <<>> \/ y.m = <<>> THEN [m |-> <<>>, e |-> 0]
  ELSE [RoundQ(Mul(Limb, x.m, y.m), <<1>>) EXCEPT !.e = @ + x.e + y.e]

\* x / y in float64, for y > 0
FDiv(x, y) ==
  IF x.m = <<>> THEN x
  ELSE [RoundQ(x.m, y.m) EXCEPT !.e = @ + x.e - y.e]

\* uint64(x) of a float64 x >= 0, in base 10^4: the fraction is dropped
Uint64(x) ==
  Rebase(Limb, Myriad,
         IF x.e >= 0 THEN ShiftL(x.m, x.e)
         ELSE DivMod(Limb, x.m, ShiftL(<<1>>, 0 - x.e)).q)

(***************************************************************************)
(* time.Duration and time.ParseDuration.                                   *)
(***************************************************************************)
\* a time.Duration: its sign and its nanoseconds in base 10; n is the
\* count in base 10^4
Nanoseconds(neg, n) == [neg |-> neg /\ n # <<>>, ns |-> ToDigits(n)]
ZeroDuration == Nanoseconds(FALSE, <<>>)
\* n * time.Second
Seconds(n) == Nanoseconds(FALSE, MulSmall(Myriad, <<10, 0, 0>>, n))

\* the first position from i on that holds no digit
SkipDigits(cs, i) ==
  LET stop == {k \in i..Len(cs) : ~IsDigit(cs[k])}
  IN  IF stop = {} THEN Len(cs) + 1
      ELSE CHOOSE k \in stop : \A n \in stop : k <= n

\* the first position from i on that holds a digit or a point
SkipUnit(cs, i) ==
  LET stop == {k \in i..Len(cs) : IsDigit(cs[k]) \/ cs[k] = "."}
  IN  IF stop = {} THEN Len(cs) + 1
      ELSE CHOOSE k \in stop : \A n \in stop : k <= n

\* the number a run of digit characters stands for, in base 10^4
DigitsOf(ds) == FromDigits(Norm([i \in 1..Len(ds) |-> DigitOf(ds[i])]))

\* leadingInt: [err, x]; a run whose value exceeds 2^63 is an error
leadingInt(ds) ==
  IF Less(Two63, DigitsOf(ds)) THEN [err |-> TRUE, x |-> <<>>]
                               ELSE [err |-> FALSE, x |-> DigitsOf(ds)]

RECURSIVE ScaleLoop(_, _)
\* scale after n more rounds of scale *= 10
ScaleLoop(scale, n) ==
  IF n = 0 THEN scale ELSE ScaleLoop(FMul(scale, Float64(<<10>>)), n - 1)

\* scale after n rounds of scale *= 10, from 1: the powers of 10 up to
\* 10^22 are float64 values, so the first 22 rounds are exact
Scale10(n) ==
  ScaleLoop(Float64(FromDigits(<<1>> \o [i \in 1..(IF n < 22 THEN n ELSE 22)
                                          |-> 0])),
            IF n < 22 THEN 0 ELSE n - 22)

\* leadingFraction: [x, n] of the digit characters ds, the scale being
\* Scale10(n).  x takes the digits while it stays within (2^63 - 1) / 10
\* before a digit and within 2^63 after it; the digits from the first one
\* that fails are read and ignored.
leadingFraction(ds) ==
  LET X(i)   == DigitsOf(SubSeq(ds, 1, i))
      Fits(i) == /\ ~Less(FromDigits(<<9,2,2,3,3,7,2,0,3,6,8,5,4,7,7,5,8,0>>),
                          X(i - 1))
                 /\ ~Less(Two63, X(i))
      bad    == {i \in 1..Len(ds) : ~Fits(i)}
      n      == IF bad = {} THEN Len(ds)
                ELSE (CHOOSE i \in bad : \A k \in bad : i <= k) - 1
  IN  [x |-> X(n), n |-> n]

\* time.ParseDuration's unitMap, in nanoseconds: [ok, unit]
DurationUnit(u) ==
  CASE u = <<"n","s">> -> [ok |-> TRUE, unit |-> FromDigits(<<1>>)]
    [] u = <<"u","s">> -> [ok |-> TRUE, unit |-> FromDigits(<<1,0,0,0>>)]
    [] u = <<"µ","s">> -> [ok |-> TRUE, unit |-> FromDigits(<<1,0,0,0>>)]
    [] u = <<"μ","s">> -> [ok |-> TRUE, unit |-> FromDigits(<<1,0,0,0>>)]
    [] u = <<"m","s">> -> [ok |-> TRUE, unit |-> FromDigits(<<1,0,0,0,0,0,0>>)]
    [] u = <<"s">>     -> [ok |-> TRUE, unit |-> FromDigits(<<1,0,0,0,0,0,0,0,0,0>>)]
    [] u = <<"m">>     -> [ok |-> TRUE, unit |-> FromDigits(<<6,0,0,0,0,0,0,0,0,0,0>>)]
    [] u = <<"h">>     -> [ok |-> TRUE, unit |-> FromDigits(<<3,6,0,0,0,0,0,0,0,0,0,0,0>>)]
    [] OTHER           -> [ok |-> FALSE, unit |-> <<>>]

\* uint64(float64(f) * (float64(unit) / scale)), scale being Scale10(n);
\* f is below 2^63 and unit at most 3.6e12, so from n = 32 on the product
\* is below 1 and its uint64 is 0
FractionOf(f, n, unit) ==
  IF n > 31 THEN <<>>
  ELSE Uint64(FMul(Float64(f), FDiv(Float64(unit), Scale10(n))))

\* return 0, errors.New("time: invalid duration ...")
BadDuration == [err |-> TRUE, d |-> ZeroDuration]

\* the loop's state after an error
BadTerm == [err |-> TRUE, d |-> <<>>, i |-> 0]

\* a uint64 that may not exceed 1<<63: [err, v]
Checked(v) ==
  IF Less(Two63, v) THEN [err |-> TRUE, v |-> <<>>]
                    ELSE [err |-> FALSE, v |-> v]

\* v += uint64(float64(f) * (float64(unit) / scale)) where f > 0, and the
\* check of v
WithFraction(v, fr, unit) ==
  IF v.err \/ fr.x = <<>> THEN v
  ELSE Checked(Add(Myriad, v.v, FractionOf(fr.x, fr.n, unit)))

\* d += v, which wraps at 2^64, and the check of d; the loop goes on at e
Accumulate(d, v, e) ==
  IF v.err THEN BadTerm
  ELSE LET sum  == Add(Myriad, d, v.v)
           next == IF Less(sum, Two64) THEN sum ELSE Sub(Myriad, sum, Two64)
       IN  IF Less(Two63, next) THEN BadTerm
           ELSE [err |-> FALSE, d |-> next, i |-> e]

\* one round of the loop of time.ParseDuration, at cs[i]: a number with
\* an optional fraction, and a unit; its nanoseconds are added to the
\* uint64 d.  v > 1<<63/unit is checked as v * unit > 1<<63, which is the
\* same condition on the integers.
Term(cs, i, d) ==
  IF ~IsDigit(cs[i]) /\ cs[i] # "." THEN BadTerm
  ELSE LET j    == SkipDigits(cs, i)
           dot  == j <= Len(cs) /\ cs[j] = "."
           k    == IF dot THEN SkipDigits(cs, j + 1) ELSE j
           pre  == j > i
           post == dot /\ k > j + 1
           e    == SkipUnit(cs, k)
           u    == DurationUnit(SubSeq(cs, k, e - 1))
           int  == leadingInt(SubSeq(cs, i, j - 1))
           fr   == IF dot THEN leadingFraction(SubSeq(cs, j + 1, k - 1))
                          ELSE [x |-> <<>>, n |-> 0]
       IN  IF int.err THEN BadTerm
           ELSE IF ~pre /\ ~post THEN BadTerm
           ELSE IF e = k THEN BadTerm
           ELSE IF ~u.ok THEN BadTerm
           ELSE Accumulate(d, WithFraction(Checked(Mul(Myriad, int.x, u.unit)),
                                           fr, u.unit), e)

RECURSIVE DurationTerms(_, _)
\* the loop of time.ParseDuration, from the state st = [err, d, i] on: it
\* ends with an error or at the end of cs, and gives [err, d]
DurationTerms(cs, st) ==
  IF st.err \/ st.i > Len(cs) THEN [err |-> st.err, d |-> st.d]
  ELSE DurationTerms(cs, Term(cs, st.i, st.d))

\* the result of the loop as a time.Duration: the sum may be 1<<63 only
\* under a minus sign
Signed(neg, r) ==
  IF r.err THEN BadDuration
  ELSE IF neg THEN [err |-> FALSE, d |-> Nanoseconds(TRUE, r.d)]
  ELSE IF ~Less(r.d, Two63) THEN BadDuration
  ELSE [err |-> FALSE, d |-> Nanoseconds(FALSE, r.d)]

\* time.ParseDuration: [err, d], d the time.Duration
ParseDuration(cs) ==
  LET signed == cs # <<>> /\ cs[1] \in {"+", "-"}
      rest   == IF signed THEN Tail(cs) ELSE cs
  IN  IF rest = <<"0">> THEN [err |-> FALSE, d |-> ZeroDuration]
      ELSE IF rest = <<>> THEN BadDuration
      ELSE Signed(signed /\ cs[1] = "-",
                  DurationTerms(rest, [err |-> FALSE, d |-> <<>>, i |-> 1]))

\* the variables the two programs read
EnvVars ==
  { "FLUENT_NETWORK", "FLUENT_SOCKET_PATH", "FLUENT_HOST", "FLUENT_PORT",
    "FLUENT_TIMEOUT", "FLUENT_WRITE_TIMEOUT", "FLUENT_BUFFER_LIMIT",
    "FLUENT_ASYNC", "FLUENT_FORCE_STOP_ASYNC_SEND",
    "FLUENT_SUB_SECOND_PRECISION", "FLUENT_MARSHAL_AS_JSON",
    "FLUENT_REQUEST_ACK", "FLUENT_TLS_INSECURE_SKIP_VERIFY",
    "FLUENT_ASYNC_RECONNECT_INTERVAL", "FLUENT_TAG_PREFIX",
    "FLUENT_MAX_RETRY", "FLUENT_RETRY_WAIT" }

\* the environments tried: at most two variables are set
Envs ==
  { [v \in EnvVars |-> IF v = a THEN x ELSE IF v = b THEN y ELSE ""] :
      a \in EnvVars, b \in EnvVars, x \in EnvValues, y \in EnvValues }

\* fluent.Config{}
ZeroConfig ==
  [FluentNetwork |-> "", FluentHost |-> "", FluentPort |-> 0,
   FluentSocketPath |-> "", Timeout |-> ZeroDuration,
   WriteTimeout |-> ZeroDuration,
   BufferLimit |-> 0, RetryWait |-> 0, MaxRetry |-> 0, Async |-> FALSE,
   ForceStopAsyncSend |-> FALSE, SubSecondPrecision |-> FALSE,
   MarshalAsJSON |-> FALSE, RequestAck |-> FALSE,
   TlsInsecureSkipVerify |-> FALSE, AsyncReconnectInterval |-> 0,
   TagPrefix |-> ""]

\* return fluent.Config{}, fmt.Errorf(msg, ...)
ConfigErr(msg) == [err |-> TRUE, msg |-> msg, cfg |-> ZeroConfig]

\* parseBool(envVar) of cmd/worker
parseBoolEnv(env, v) ==
  IF parseBool(Bytes(env[v])).err
  THEN [err |-> TRUE, v |-> FALSE, msg |-> "invalid boolean value for " \o v]
  ELSE [err |-> FALSE, v |-> parseBool(Bytes(env[v])).v, msg |-> ""]

\* the six boolean fields, in the order they are read: the first error
\* among them, if any
WorkerBools(env) ==
  LET order == <<"FLUENT_ASYNC", "FLUENT_FORCE_STOP_ASYNC_SEND",
                 "FLUENT_SUB_SECOND_PRECISION", "FLUENT_MARSHAL_AS_JSON",
                 "FLUENT_REQUEST_ACK", "FLUENT_TLS_INSECURE_SKIP_VERIFY">>
      bad   == {i \in 1..6 : parseBoolEnv(env, order[i]).err}
  IN  IF bad = {} THEN [err |-> FALSE, msg |-> ""]
      ELSE [err |-> TRUE,
            msg |-> parseBoolEnv(env, order[CHOOSE i \in bad :
                                             \A k \in bad : i <= k]).msg]

\* loadFluentConfigFromEnv of cmd/worker: [err, msg, cfg]
loadFluentConfigFromEnv(env) ==
  LET network == IF env["FLUENT_NETWORK"] # "" THEN env["FLUENT_NETWORK"]
                                               ELSE "tcp"
      unix    == network = "unix"
      host    == IF ~unix /\ env["FLUENT_HOST"] # "" THEN env["FLUENT_HOST"]
                                                     ELSE "127.0.0.1"
      port    == IF ~unix /\ env["FLUENT_PORT"] # ""
                 THEN Atoi(Bytes(env["FLUENT_PORT"]))
                 ELSE [err |-> FALSE, v |-> 24224]
      timeout == IF env["FLUENT_TIMEOUT"] # ""
                 THEN ParseDuration(Bytes(env["FLUENT_TIMEOUT"]))
                 ELSE [err |-> FALSE, d |-> Seconds(10)]
      wtime   == IF env["FLUENT_WRITE_TIMEOUT"] # ""
                 THEN ParseDuration(Bytes(env["FLUENT_WRITE_TIMEOUT"]))
                 ELSE [err |-> FALSE, d |-> ZeroDuration]
      limit   == IF env["FLUENT_BUFFER_LIMIT"] # ""
                 THEN Atoi(Bytes(env["FLUENT_BUFFER_LIMIT"]))
                 ELSE [err |-> FALSE, v |-> 8192]
      bools   == WorkerBools(env)
      recon   == IF env["FLUENT_ASYNC_RECONNECT_INTERVAL"] # ""
                 THEN Atoi(Bytes(env["FLUENT_ASYNC_RECONNECT_INTERVAL"]))
                 ELSE [err |-> FALSE, v |-> 0]
      B(v)    == parseBoolEnv(env, v).v
  IN  IF network \notin {"tcp", "tls", "unix"}
      THEN ConfigErr("invalid FluentNetwork")
      ELSE IF unix /\ env["FLUENT_SOCKET_PATH"] = ""
      THEN ConfigErr("FluentSocketPath required for unix network")
      ELSE IF port.err THEN ConfigErr("invalid FluentPort")
      ELSE IF timeout.err THEN ConfigErr("invalid Timeout")
      ELSE IF wtime.err THEN ConfigErr("invalid WriteTimeout")
      ELSE IF limit.err THEN ConfigErr("invalid BufferLimit")
      ELSE IF bools.err THEN ConfigErr(bools.msg)
      ELSE IF recon.err THEN ConfigErr("invalid AsyncReconnectInterval")
      ELSE [err |-> FALSE, msg |-> "",
            cfg |-> [FluentNetwork |-> network, FluentHost |-> host,
                     FluentPort |-> port.v,
                     FluentSocketPath |->
                       IF unix THEN env["FLUENT_SOCKET_PATH"] ELSE "",
                     Timeout |-> timeout.d, WriteTimeout |-> wtime.d,
                     BufferLimit |-> limit.v, RetryWait |-> 500,
                     MaxRetry |-> 13,
                     Async |-> B("FLUENT_ASYNC"),
                     ForceStopAsyncSend |-> B("FLUENT_FORCE_STOP_ASYNC_SEND"),
                     SubSecondPrecision |-> B("FLUENT_SUB_SECOND_PRECISION"),
                     MarshalAsJSON |-> B("FLUENT_MARSHAL_AS_JSON"),
                     RequestAck |-> B("FLUENT_REQUEST_ACK"),
                     TlsInsecureSkipVerify |->
                       B("FLUENT_TLS_INSECURE_SKIP_VERIFY"),
                     AsyncReconnectInterval |-> recon.v,
                     TagPrefix |-> env["FLUENT_TAG_PREFIX"]]]

\* getEnv of the metrics collector
getEnv(env, key, defaultValue) ==
  IF env[key] = "" THEN defaultValue ELSE env[key]

\* the fluent.Config the metrics collector's main makes of the
\* environment; the errors of Atoi and ParseBool are dropped
metricsConfig(env) ==
  [ZeroConfig EXCEPT
     !.FluentHost  = getEnv(env, "FLUENT_HOST", "fluentbit"),
     !.FluentPort  = Atoi(Bytes(getEnv(env, "FLUENT_PORT", "24224"))).v,
     !.Async       = ParseBool(Bytes(getEnv(env, "FLUENT_ASYNC", "true"))).v,
     !.BufferLimit = Atoi(Bytes(getEnv(env, "FLUENT_BUFFER_LIMIT", "8192"))).v,
     !.MaxRetry    = Atoi(Bytes(getEnv(env, "FLUENT_MAX_RETRY", "13"))).v,
     !.RetryWait   = Atoi(Bytes(getEnv(env, "FLUENT_RETRY_WAIT", "500"))).v]

\* no program has started
NoStartup ==
  [prog |-> "none", env |-> [v \in EnvVars |-> ""], loaded |-> FALSE,
   msg |-> "", ok |-> FALSE, cfg |-> ZeroConfig]

(***************************************************************************)
(* Configuration and construction.                                         *)
(***************************************************************************)
defaultFluentTag == "app.logs"
\* 5 * time.Second
defaultShutdownTimeout == Seconds(5)

\* fluent.New: an asynchronous client connects later; a synchronous one
\* connects at once and fails on an unknown network or an unreachable peer
FluentNew(fc, reachable) ==
  LET network == IF fc.FluentNetwork = "" THEN "tcp" ELSE fc.FluentNetwork
  IN  fc.Async \/ (network \in {"tcp", "tls", "unix"} /\ reachable)

\* SugaredLoggerConfig values tried by NewSugaredLogger
SugaredConfigs ==
  { [FluentConfig |-> [FluentNetwork |-> "tcp", Async |-> FALSE,
                       Timeout |-> Seconds(10)],
     Tag |-> "", LogLevel |-> <<"D","E","B","U","G">>],
    [FluentConfig |-> [FluentNetwork |-> "carrier-pigeon", Async |-> TRUE,
                       Timeout |-> ZeroDuration],
     Tag |-> "svc", LogLevel |-> <<"W","A","R","N","I","N","G">>],
    [FluentConfig |-> [FluentNetwork |-> "carrier-pigeon", Async |-> FALSE,
                       Timeout |-> ZeroDuration],
     Tag |-> "svc", LogLevel |-> <<"w","a","r","n">>] }

\* FluentConfig values tried by NewWrappedLogger
WrappedConfigs ==
  { [Fluent |-> [FluentNetwork |-> "", Async |-> TRUE,
                 Timeout |-> ZeroDuration],
     Tag |-> "", Timeout |-> ZeroDuration],
    [Fluent |-> [FluentNetwork |-> "unix", Async |-> FALSE,
                 Timeout |-> ZeroDuration],
     Tag |-> "service.metrics", Timeout |-> Seconds(10)],
    [Fluent |-> [FluentNetwork |-> "carrier-pigeon", Async |-> FALSE,
                 Timeout |-> ZeroDuration],
     Tag |-> "", Timeout |-> ZeroDuration] }

\* the sink before construction
NoSink ==
  [built |-> FALSE, tag |-> "", timeout |-> ZeroDuration, closed |-> FALSE]

(***************************************************************************)
(* Inputs of the calls.                                                    *)
(***************************************************************************)
\* byte slices handed to FluentLogger.Write directly: an object with a
\* repeated key, the literal null, a truncated object and an array
Payloads ==
  { <<LB, Str("a"), COLON, Num("1"), COMMA, Str("a"), COLON, Str("x"), RB>>,
    <<NULL>>,
    <<LB, Str("message"), COLON, Str("m")>>,
    <<LSQ, Num("1"), RSQ>> }

\* the leveled calls of the facade: Debugw, Infow, Warnw, Errorw
CallLevels == {DebugLevel, InfoLevel, WarnLevel, ErrorLevel}

\* the key/value list passed to a leveled call
CallFields == << <<"goroutine", Num("1")>> >>

(***************************************************************************)
(* State.                                                                  *)
(***************************************************************************)
VARIABLES
  variant,      \* "none", "atomic" (SugaredLogger) or "mutex" (WrappedLogger)
  handle,       \* "none" before construction, then "built" or "nil"
  constructErr, \* the error the constructor returned (TRUE: non-nil)
  transport,    \* [built, closeCalls]: the fluent client and its Close calls
  lastPost,     \* the PostWithTime call the transport received in the last
                \* step, if it received one: [by, tag, isNil, rec, late, closed]
  sink,         \* FluentLogger: [built, tag, timeout, closed]
  core,         \* the facade's zap core: [built, level]
  parsed,       \* the parseLogLevel call made: [called, arg, level]
  startup,      \* what main made of the environment:
                \* [prog, env, loaded, ok, cfg]
  mu,           \* FluentLogger.mu: 0 when free, else the holding goroutine
  once,         \* closeOnce: "fresh", "running" or "done"
  bg,           \* the goroutine Sync starts: "none","spawned","inClose","done"
  g,            \* each calling goroutine: [pc, op, buf, stage, cerr, nposts, late]
  last,         \* the call that returned in the last step, if one did:
                \* [by, op, buf, stage, nposts, late, post, ret]
  syncNil,      \* history: some FluentLogger.Sync call has returned nil
  closedBy,     \* history: the call whose Sync set the closed flag
  syncErrs,     \* history: the errors of the two sync steps of Close
  closeRets     \* history: the results Close calls returned

vars == <<variant, handle, constructErr, transport, lastPost, sink, core,
          parsed, startup,
          mu, once, bg, g, last, syncNil, closedBy, syncErrs, closeRets>>

\* everything the constructor sets
built == <<variant, handle, constructErr, core, parsed, startup>>
\* history of the sync calls
hist == <<syncNil, closedBy, syncErrs, closeRets>>

\* a goroutine in no call.  Of a goroutine in a call: pc is its position,
\* op the API call, buf the bytes of its Write, stage the step of Close it
\* is in (1 the facade sync, 2 the sink sync), cerr Close's local err,
\* nposts the PostWithTime calls it made, late whether the call started
\* after some Sync had returned nil.
Idle == [pc |-> "idle", op |-> "none", buf |-> <<>>, stage |-> 0,
         cerr |-> NoErr, nposts |-> 0, late |-> FALSE]

NoRet == [n |-> 0, err |-> NoErr]

\* no call returned in the last step
NoLast == [by |-> 0, op |-> "none", buf |-> <<>>, stage |-> 0,
           nposts |-> 0, late |-> FALSE, post |-> "none", ret |-> NoRet]

\* the transport received no post in the last step
NoPost == [by |-> 0, tag |-> "", isNil |-> FALSE, rec |-> <<>>,
           late |-> FALSE, closed |-> FALSE]

\* a step in which no call returns and the transport receives no post
Quiet == last' = NoLast /\ lastPost' = NoPost

Init ==
  /\ variant = "none"
  /\ handle = "none"
  /\ constructErr = FALSE
  /\ transport = [built |-> FALSE, closeCalls |-> 0]
  /\ lastPost = NoPost
  /\ sink = NoSink
  /\ core = [built |-> FALSE, level |-> InfoLevel]
  /\ parsed = [called |-> FALSE, arg |-> <<>>, level |-> InfoLevel]
  /\ startup = NoStartup
  /\ mu = 0
  /\ once = "fresh"
  /\ bg = "none"
  /\ g = [t \in Threads |-> Idle]
  /\ last = NoLast
  /\ syncNil = FALSE
  /\ closedBy = "none"
  /\ syncErrs = <<>>
  /\ closeRets = {}

(***************************************************************************)
(* Construction.                                                           *)
(***************************************************************************)
\* a constructor that goes on after a failed fluent.New
BuildMutant(v, ok, tag, timeout, lvl) ==
  /\ variant' = v
  /\ handle' = "built"
  /\ constructErr' = ~ok
  /\ transport' = [built |-> ok, closeCalls |-> 0]
  /\ sink' = [built |-> TRUE, tag |-> tag, timeout |-> timeout,
              closed |-> FALSE]
  /\ core' = [built |-> TRUE, level |-> lvl]
  /\ UNCHANGED <<mu, once, bg, g, hist>> /\ Quiet

\* what a constructor returns and leaves built: after a failed fluent.New
\* it returns (nil, err) before the sink and the core are created
Build(v, ok, tag, timeout, lvl) ==
  /\ variant' = v
  /\ IF ok
     THEN /\ handle' = "built"
          /\ constructErr' = FALSE
          /\ transport' = [built |-> TRUE, closeCalls |-> 0]
          /\ sink' = [built |-> TRUE, tag |-> tag, timeout |-> timeout,
                      closed |-> FALSE]
          /\ core' = [built |-> TRUE, level |-> lvl]
     ELSE /\ handle' = "nil"
          /\ constructErr' = TRUE
          /\ UNCHANGED <<transport, sink, core>>
  /\ UNCHANGED <<mu, once, bg, g, hist>> /\ Quiet

\* lvl := parseLogLevel(s)
ParseCall(s) ==
  parsed' = [called |-> TRUE, arg |-> s, level |-> parseLogLevel(s)]

NewSugaredLogger(cfg, reachable) ==
  /\ handle = "none"
  /\ LET tag == IF cfg.Tag = "" THEN defaultFluentTag ELSE cfg.Tag
         fc  == IF cfg.FluentConfig.Timeout = ZeroDuration
                THEN [cfg.FluentConfig EXCEPT !.Timeout = defaultShutdownTimeout]
                ELSE cfg.FluentConfig
         ok  == FluentNew(fc, reachable)
     IN  /\ IF ok THEN ParseCall(cfg.LogLevel) ELSE UNCHANGED parsed
         /\ Build("atomic", ok, tag, fc.Timeout, parseLogLevel(cfg.LogLevel))

NewWrappedLogger(cfg, reachable) ==
  /\ handle = "none"
  /\ UNCHANGED parsed
  /\ LET tag     == IF cfg.Tag = "" THEN defaultFluentTag ELSE cfg.Tag
         timeout == IF cfg.Timeout = ZeroDuration THEN defaultShutdownTimeout
                                       ELSE cfg.Timeout
     IN  Build("mutex", FluentNew(cfg.Fluent, reachable), tag, timeout,
               InfoLevel)

(***************************************************************************)
(* Calls and returns.                                                      *)
(***************************************************************************)
CanStart(t) == handle = "built" /\ g[t].pc = "idle"

\* goroutine t is now at pcv in call o on bytes p
Enter(t, o, p, pcv) ==
  g' = [g EXCEPT ![t] = [pc |-> pcv, op |-> o, buf |-> p, stage |-> 0,
                         cerr |-> NoErr, nposts |-> 0, late |-> syncNil]]

\* call o of goroutine t on bytes p returns r in the step that started it
Immediate(t, o, p, r) ==
  /\ last' = [by |-> t, op |-> o, buf |-> p, stage |-> 0, nposts |-> 0,
              late |-> syncNil, post |-> "none", ret |-> r]
  /\ lastPost' = NoPost
  /\ UNCHANGED g

\* goroutine t returns r from the call it is in; post tells how the
\* PostWithTime call of a Write ended ("none": it made none)
ReturnAfter(t, r, post) ==
  /\ last' = [by |-> t, op |-> g[t].op, buf |-> g[t].buf,
              stage |-> g[t].stage, nposts |-> g[t].nposts,
              late |-> g[t].late, post |-> post, ret |-> r]
  /\ lastPost' = NoPost
  /\ g' = [g EXCEPT ![t] = Idle]

Return(t, r) == ReturnAfter(t, r, "none")

(***************************************************************************)
(* FluentLogger.Write, called directly or by the facade's core.            *)
(***************************************************************************)
\* a Write that skips the closed check
WriteSeesClosedMutant(s) == FALSE
\* the closed check of Write: f.closed.Load() / f.closed under the mutex
WriteSeesClosed(s) == s.closed

\* a Write that does not wait for the mutex
WriteBeginMutant(t, o, p) ==
  /\ IF WriteSeesClosed(sink)
     THEN Immediate(t, o, p, [n |-> 0, err |-> ErrLoggerClosed]) /\ UNCHANGED mu
     ELSE IF Unmarshal(p).err
     THEN Immediate(t, o, p, [n |-> 0, err |-> ErrDecode]) /\ UNCHANGED mu
     ELSE /\ Enter(t, o, p, "wPost")
          /\ mu' = IF variant = "mutex" THEN t ELSE mu
          /\ Quiet

\* Write(p) by call o up to the call of PostWithTime: the closed check (in
\* the mutex variant after f.mu.Lock(), with the deferred Unlock on each
\* return) and json.Unmarshal
WriteBegin(t, o, p) ==
  /\ variant = "mutex" => mu = 0
  /\ IF WriteSeesClosed(sink)
     THEN Immediate(t, o, p, [n |-> 0, err |-> ErrLoggerClosed]) /\ UNCHANGED mu
     ELSE IF Unmarshal(p).err
     THEN Immediate(t, o, p, [n |-> 0, err |-> ErrDecode]) /\ UNCHANGED mu
     ELSE /\ Enter(t, o, p, "wPost")
          /\ mu' = IF variant = "mutex" THEN t ELSE mu
          /\ Quiet

\* a caller invokes Write(p) on the sink
WriteCall(t, p) ==
  /\ CanStart(t)
  /\ WriteBegin(t, "Write", p)
  /\ UNCHANGED <<built, transport, sink, once, bg, hist>>

\* a level check that drops the minimum level itself
EnabledMutant(min, lvl) == lvl > min
\* zapcore.LevelEnabler of the core: lvl is enabled at minimum level min
Enabled(min, lvl) == lvl >= min

\* a leveled call of the facade: the core's level check, then the encoder
\* and the sink's Write; a call below the level does nothing
LogCall(t, lvl) ==
  /\ CanStart(t)
  /\ IF Enabled(core.level, lvl)
     THEN WriteBegin(t, LevelString(lvl),
                     EncodeEntry(variant, lvl, "m", CallFields))
     ELSE Immediate(t, LevelString(lvl), <<>>, NoRet) /\ UNCHANGED mu
  /\ UNCHANGED <<built, transport, sink, once, bg, hist>>

\* a post with the default tag and an empty record
PostRecordMutant(t) ==
  [by |-> t, tag |-> defaultFluentTag, isNil |-> FALSE, rec |-> <<>>,
   late |-> g[t].late, closed |-> sink.closed]

\* the call Write makes: PostWithTime(f.tag, time.Now(), entry)
PostRecord(t) ==
  [by |-> t, tag |-> sink.tag,
   isNil |-> Unmarshal(g[t].buf).isNil, rec |-> Unmarshal(g[t].buf).m,
   late |-> g[t].late, closed |-> sink.closed]

\* a Write that may hand its record to the transport a second time
PostEnterMutant(t) ==
  /\ g[t].pc \in {"wPost", "wInPost"}
  /\ lastPost' = PostRecord(t)
  /\ last' = NoLast
  /\ g' = [g EXCEPT ![t].pc = "wInPost", ![t].nposts = @ + 1]
  /\ UNCHANGED <<built, transport, sink, mu, once, bg, hist>>

\* f.logger.PostWithTime(...) is entered
PostEnter(t) ==
  /\ g[t].pc = "wPost"
  /\ lastPost' = PostRecord(t)
  /\ last' = NoLast
  /\ g' = [g EXCEPT ![t].pc = "wInPost", ![t].nposts = @ + 1]
  /\ UNCHANGED <<built, transport, sink, mu, once, bg, hist>>

\* a Write that reports len(p) with the error of a failed post
WriteResultMutant(t, ok) ==
  IF ok THEN [n |-> Len(g[t].buf), err |-> NoErr]
        ELSE [n |-> Len(g[t].buf),
              err |-> Wrap(DeliveryMsg(variant), ErrTransport)]

\* what Write returns once PostWithTime returned
WriteResult(t, ok) ==
  IF ok THEN [n |-> Len(g[t].buf), err |-> NoErr]
        ELSE [n |-> 0, err |-> Wrap(DeliveryMsg(variant), ErrTransport)]

\* a Write that closes the sink when the delivery fails
PostReturnMutant(t, ok) ==
  /\ g[t].pc = "wInPost"
  /\ ReturnAfter(t, WriteResult(t, ok), IF ok THEN "ok" ELSE "failed")
  /\ mu' = IF variant = "mutex" THEN 0 ELSE mu
  /\ sink' = IF ok THEN sink ELSE [sink EXCEPT !.closed = TRUE]
  /\ UNCHANGED <<built, transport, once, bg, hist>>

\* PostWithTime returns, with or without an error, and so does Write
PostReturn(t, ok) ==
  /\ g[t].pc = "wInPost"
  /\ ReturnAfter(t, WriteResult(t, ok), IF ok THEN "ok" ELSE "failed")
  /\ mu' = IF variant = "mutex" THEN 0 ELSE mu
  /\ UNCHANGED <<built, transport, sink, once, bg, hist>>

(***************************************************************************)
(* FluentLogger.Sync, called directly (the handle's promoted Sync) or by   *)
(* Close.  The facade's Sync is the core's Sync, which is the sink's Sync. *)
(***************************************************************************)
\* Close's err after its first step, l.SugaredLogger.Sync() / l.Sync()
ErrAfterFacadeSync(v, e) ==
  IF v = "atomic"
  THEN IF e # NoErr THEN Wrap("zap sync failed", e) ELSE NoErr
  ELSE e

\* Close's err after its second step, l.fluent.Sync()
ErrAfterFluentSync(v, err, e) ==
  IF v = "atomic"
  THEN IF e # NoErr THEN Wrap("fluent close failed", e) ELSE err
  ELSE err

\* the err of a Close caller whose once.Do did not run the function: only
\* the caller that ran it has err assigned
OnceSkipped == NoErr

\* FluentLogger.Sync returns e to its caller in goroutine t
SyncReturn(t, e) ==
  /\ syncNil' = (syncNil \/ e = NoErr)
  /\ UNCHANGED closedBy
  /\ IF g[t].op = "Sync"
     THEN /\ Return(t, [n |-> 0, err |-> e])
          /\ UNCHANGED <<once, syncErrs, closeRets>>
     ELSE IF g[t].stage = 1
     THEN /\ g' = [g EXCEPT ![t].cerr = ErrAfterFacadeSync(variant, e),
                            ![t].stage = 2, ![t].pc = "sEnter"]
          /\ syncErrs' = <<e>>
          /\ UNCHANGED <<once, closeRets>> /\ Quiet
     ELSE LET final == ErrAfterFluentSync(variant, g[t].cerr, e)
          IN  /\ once' = "done"
              /\ Return(t, [n |-> 0, err |-> final])
              /\ closeRets' = closeRets \cup {final}
              /\ syncErrs' = Append(syncErrs, e)

\* a Sync that skips the closed check
SyncSeesClosedMutant(s) == FALSE
\* the closed check of Sync: what Swap(true) returns / f.closed under the
\* mutex
SyncSeesClosed(s) == s.closed

\* a Sync that leaves the flag unset
MarkClosedMutant(s) == s
\* the closed flag after Sync's transition: Swap(true) / f.closed = true
MarkClosed(s) == [s EXCEPT !.closed = TRUE]

\* Sync, in call o, takes the close on itself.  Atomic variant: Swap(true)
\* returned false, so it starts the goroutine that closes the transport
\* and goes to the select.  Mutex variant: f.closed = true under the
\* mutex, which it keeps while it closes the transport.
SyncClaim(t, o) ==
  /\ sink' = MarkClosed(sink)
  /\ closedBy' = o
  /\ IF variant = "atomic"
     THEN bg' = "spawned" /\ UNCHANGED mu
     ELSE mu' = t /\ UNCHANGED bg

\* where Sync waits once it took the close on itself
ClosePc == IF variant = "atomic" THEN "sSelect" ELSE "sClose"

\* a caller invokes the handle's promoted Sync(): the sink's Sync up to
\* its closed check (Swap / Lock and test)
SyncCall(t) ==
  /\ CanStart(t)
  /\ variant = "mutex" => mu = 0
  /\ IF SyncSeesClosed(sink)
     THEN /\ syncNil' = TRUE
          /\ Immediate(t, "Sync", <<>>, NoRet)
          /\ UNCHANGED <<sink, bg, mu, closedBy>>
     ELSE /\ SyncClaim(t, "Sync")
          /\ Enter(t, "Sync", <<>>, ClosePc)
          /\ UNCHANGED syncNil /\ Quiet
  /\ UNCHANGED <<built, transport, once, syncErrs, closeRets>>

\* Close calls Sync: the facade's in its first step, the sink's in its second
SyncInClose(t) ==
  /\ g[t].pc = "sEnter"
  /\ variant = "mutex" => mu = 0
  /\ IF SyncSeesClosed(sink)
     THEN SyncReturn(t, NoErr) /\ UNCHANGED <<sink, bg, mu>>
     ELSE /\ SyncClaim(t, "Close")
          /\ g' = [g EXCEPT ![t].pc = ClosePc]
          /\ UNCHANGED <<once, syncNil, syncErrs, closeRets>> /\ Quiet
  /\ UNCHANGED <<built, transport>>

\* the goroutine enters f.logger.Close()
BgCloseEnter ==
  /\ bg = "spawned"
  /\ bg' = "inClose"
  /\ transport' = [transport EXCEPT !.closeCalls = @ + 1]
  /\ UNCHANGED <<built, sink, mu, once, g, hist>> /\ Quiet

\* f.logger.Close() returns (its result is dropped) and done is closed;
\* a transport that hangs never takes this step
BgCloseReturn ==
  /\ bg = "inClose"
  /\ bg' = "done"
  /\ UNCHANGED <<built, transport, sink, mu, once, g, hist>> /\ Quiet

\* select: case <-done
SelectDone(t) ==
  /\ g[t].pc = "sSelect" /\ bg = "done"
  /\ SyncReturn(t, NoErr)
  /\ UNCHANGED <<built, transport, sink, mu, bg>>

\* a select without the timeout case
TimerNeverFires == FALSE
\* time.After(f.timeout) delivers once the timeout has elapsed
TimerFires == TRUE

\* a timeout that abandons the goroutine it started
SelectTimeoutMutant(t) ==
  /\ g[t].pc = "sSelect" /\ TimerFires
  /\ SyncReturn(t, ErrFlushTimeout)
  /\ bg' = "none"
  /\ UNCHANGED <<built, transport, sink, mu>>

\* select: case <-time.After(f.timeout)
SelectTimeout(t) ==
  /\ g[t].pc = "sSelect" /\ TimerFires
  /\ SyncReturn(t, ErrFlushTimeout)
  /\ UNCHANGED <<built, transport, sink, mu, bg>>

\* mutex variant: Sync enters f.logger.Close() holding the mutex
MuCloseEnter(t) ==
  /\ g[t].pc = "sClose"
  /\ g' = [g EXCEPT ![t].pc = "sInClose"]
  /\ transport' = [transport EXCEPT !.closeCalls = @ + 1]
  /\ UNCHANGED <<built, sink, mu, once, bg, hist>> /\ Quiet

\* mutex variant: f.logger.Close() returns e, Sync returns it and unlocks;
\* a transport that hangs never takes this step
MuCloseReturn(t, e) ==
  /\ g[t].pc = "sInClose"
  /\ mu' = 0
  /\ SyncReturn(t, e)
  /\ UNCHANGED <<built, transport, sink, bg>>

(***************************************************************************)
(* Close of the handle.                                                    *)
(***************************************************************************)
\* a caller invokes Close() on a built handle
CloseCall(t) ==
  /\ CanStart(t)
  /\ Enter(t, "Close", <<>>, "cOnce")
  /\ UNCHANGED <<built, transport, sink, mu, once, bg, hist>> /\ Quiet

\* Close() on the nil handle a failed construction returned
CloseNil(t) ==
  /\ handle = "nil" /\ g[t].pc = "idle"
  /\ Immediate(t, "Close", <<>>, NoRet)
  /\ UNCHANGED <<built, transport, sink, mu, once, bg, hist>>

\* l.closeOnce.Do: the first caller runs the function; a caller that
\* arrives while it runs waits for it; a later caller skips it
OnceDo(t) ==
  /\ g[t].pc = "cOnce" /\ once # "running"
  /\ IF once = "fresh"
     THEN /\ once' = "running"
          /\ g' = [g EXCEPT ![t].stage = 1, ![t].pc = "sEnter"]
          /\ UNCHANGED closeRets /\ Quiet
     ELSE /\ Return(t, [n |-> 0, err |-> OnceSkipped])
          /\ closeRets' = closeRets \cup {OnceSkipped}
          /\ UNCHANGED once
  /\ UNCHANGED <<built, transport, sink, mu, bg, syncNil, closedBy,
                 syncErrs>>

(***************************************************************************)
(* The specification.                                                      *)
(***************************************************************************)
Next ==
  \/ \E cfg \in SugaredConfigs, r \in BOOLEAN :
       NewSugaredLogger(cfg, r) /\ UNCHANGED startup
  \/ \E cfg \in WrappedConfigs, r \in BOOLEAN :
       NewWrappedLogger(cfg, r) /\ UNCHANGED startup
  \/ \E t \in Threads, p \in Payloads : WriteCall(t, p)
  \/ \E t \in Threads, l \in CallLevels : LogCall(t, l)
  \/ \E t \in Threads : PostEnter(t)
  \/ \E t \in Threads, ok \in BOOLEAN : PostReturn(t, ok)
  \/ \E t \in Threads : SyncCall(t)
  \/ \E t \in Threads : SyncInClose(t)
  \/ BgCloseEnter
  \/ BgCloseReturn
  \/ \E t \in Threads : SelectDone(t)
  \/ \E t \in Threads : SelectTimeout(t)
  \/ \E t \in Threads : MuCloseEnter(t)
  \/ \E t \in Threads, e \in {NoErr, ErrTransport} : MuCloseReturn(t, e)
  \/ \E t \in Threads : CloseCall(t)
  \/ \E t \in Threads : CloseNil(t)
  \/ \E t \in Threads : OnceDo(t)

Spec == Init /\ [][Next]_vars

\* a step goroutine t takes by itself on the shutdown path; which one
\* depends on where it is.  MuCloseReturn is not among them: the
\* transport's Close may hang.
Step(t) ==
  \/ OnceDo(t)
  \/ SyncInClose(t)
  \/ SelectDone(t)
  \/ SelectTimeout(t)
  \/ MuCloseEnter(t)

\* On the shutdown path a goroutine that can take a step takes it, the
\* goroutine Sync started among them, and a timer that was started fires.
\* Nothing is assumed of the transport (PostReturn, BgCloseReturn,
\* MuCloseReturn may never happen) nor of the writers.
Fairness ==
  /\ WF_vars(BgCloseEnter)
  /\ \A t \in Threads : WF_vars(Step(t))

\* the shutdown operations alone, with no writer at work
ShutdownNext ==
  \/ \E cfg \in SugaredConfigs, r \in BOOLEAN :
       NewSugaredLogger(cfg, r) /\ UNCHANGED startup
  \/ \E cfg \in WrappedConfigs, r \in BOOLEAN :
       NewWrappedLogger(cfg, r) /\ UNCHANGED startup
  \/ \E t \in Threads : SyncCall(t)
  \/ \E t \in Threads : SyncInClose(t)
  \/ BgCloseEnter
  \/ BgCloseReturn
  \/ \E t \in Threads : SelectDone(t)
  \/ \E t \in Threads : SelectTimeout(t)
  \/ \E t \in Threads : MuCloseEnter(t)
  \/ \E t \in Threads, e \in {NoErr, ErrTransport} : MuCloseReturn(t, e)
  \/ \E t \in Threads : CloseCall(t)
  \/ \E t \in Threads : CloseNil(t)
  \/ \E t \in Threads : OnceDo(t)

ShutdownSpec == Init /\ [][ShutdownNext]_vars /\ Fairness

(***************************************************************************)
(* parseLogLevel on its own: the level strings a configuration can carry,  *)
(* every spelling in upper and lower case of the words below.              *)
(***************************************************************************)
LevelWords ==
  { <<>>,
    <<"d","e","b","u","g">>, <<"i","n","f","o">>, <<"w","a","r","n">>,
    <<"e","r","r","o","r">>, <<"f","a","t","a","l">>,
    <<"w","a","r","n","i","n","g">>, <<"b","o","g","u","s">> }

\* w with the letters at the positions marked in up in upper case
Recase(w, up) ==
  [i \in 1..Len(w) |-> IF up[i] THEN ToUpper(<<w[i]>>)[1] ELSE w[i]]

LevelStrings ==
  UNION { { Recase(w, up) : up \in [1..Len(w) -> BOOLEAN] } : w \in LevelWords }

LevelNext ==
  /\ \E s \in LevelStrings : ParseCall(s)
  /\ UNCHANGED <<variant, handle, constructErr, transport, lastPost, sink,
                 core, startup, mu, once, bg, g, last, hist>>

LevelSpec == Init /\ [][LevelNext]_vars

(***************************************************************************)
(* Startup of the two programs: the configuration is read from the        *)
(* environment and handed to the constructor; main panics on an error.    *)
(***************************************************************************)
\* main of cmd/worker once loadFluentConfigFromEnv has returned r: it
\* calls NewSugaredLogger on the configuration with the log level "DEBUG",
\* and panics on the error of either, the first before any logger is made
WorkerMain(env, r, reachable) ==
  /\ startup' = [prog |-> "worker", env |-> env, loaded |-> ~r.err,
                 msg |-> r.msg,
                 ok |-> ~r.err /\ FluentNew(r.cfg, reachable),
                 cfg |-> r.cfg]
  /\ IF r.err
     THEN UNCHANGED <<variant, handle, constructErr, transport, lastPost,
                      sink, core, parsed, mu, once, bg, g, last, hist>>
     ELSE NewSugaredLogger([FluentConfig |-> r.cfg, Tag |-> "",
                            LogLevel |-> <<"D","E","B","U","G">>], reachable)

\* main of cmd/worker: loadFluentConfigFromEnv, then NewSugaredLogger
StartWorker(env, reachable) ==
  /\ startup.prog = "none"
  /\ WorkerMain(env, loadFluentConfigFromEnv(env), reachable)

\* main of the metrics collector: the variables are read with their
\* defaults, then NewWrappedLogger with the tag "service.metrics" and a
\* timeout of 10 * time.Second; it panics on the constructor's error
StartMetrics(env, reachable) ==
  /\ startup.prog = "none"
  /\ LET cfg == metricsConfig(env)
     IN  /\ startup' = [prog |-> "metrics", env |-> env, loaded |-> TRUE,
                        msg |-> "", ok |-> FluentNew(cfg, reachable),
                        cfg |-> cfg]
         /\ NewWrappedLogger([Fluent |-> cfg, Tag |-> "service.metrics",
                              Timeout |-> Seconds(10)], reachable)

\* a program starts once, in some environment
EnvNext ==
  \/ /\ startup.prog = "none"
     /\ \E env \in Envs, r \in BOOLEAN : StartWorker(env, r)
  \/ /\ startup.prog = "none"
     /\ \E env \in Envs, r \in BOOLEAN : StartMetrics(env, r)

EnvSpec == Init /\ [][EnvNext]_vars

(***************************************************************************)
(* Vocabulary of the properties.                                           *)
(***************************************************************************)
\* the names under which the leveled calls are recorded
LevelNames == { LevelString(l) : l \in CallLevels }

\* the level of the leveled call recorded as o
LevelOfCall(o) == CHOOSE l \in CallLevels : LevelString(l) = o

\* a call of FluentLogger.Write returned in the last step: a direct one,
\* or the one a leveled call made
WriteReturned ==
  /\ last.by # 0
  /\ \/ last.op = "Write"
     \/ last.op \in LevelNames /\ last.buf # <<>>

\* goroutine t is inside FluentLogger.Write, at or in PostWithTime
InPost(t) == g[t].pc \in {"wPost", "wInPost"}

ClosedRet == [n |-> 0, err |-> ErrLoggerClosed]

\* C1: once a Sync has returned nil, a Write that starts afterwards (direct
\* or made by a leveled call) returns (0, ErrLoggerClosed) and makes no
\* PostWithTime call, in both variants.
C1_WriteAfterSyncRejected ==
  /\ \A t \in Threads : g[t].late => ~InPost(t)
  /\ lastPost.by # 0 => ~lastPost.late
  /\ (WriteReturned /\ last.late) =>
        /\ last.ret = ClosedRet
        /\ last.nposts = 0
        /\ last.post = "none"

\* a direct Write that started after a Sync returned nil has returned
C1_Witness ==
  /\ last.by # 0 /\ last.op = "Write" /\ last.late
  /\ last.buf = <<NULL>>
  /\ last.ret = ClosedRet

\* the transport's Close calls made or about to be made by the goroutine
\* Sync started (atomic) or by the Sync that holds the mutex
CloseInvocations ==
  transport.closeCalls
    + (IF bg = "spawned" THEN 1 ELSE 0)
    + Cardinality({t \in Threads : g[t].pc = "sClose"})

\* a Close or Sync call has returned on a built handle
ShutdownReturned == syncNil \/ closeRets # {} \/ syncErrs # <<>>

\* C2: however many Close calls are made, together with direct Sync calls,
\* the transport's Close is invoked exactly once: never twice, and once
\* any of the calls has returned it has been invoked or is being invoked
\* by the first caller.
C2_TransportClosedOnce ==
  /\ transport.closeCalls <= 1
  /\ CloseInvocations <= 1
  /\ ShutdownReturned => CloseInvocations = 1
  /\ (last.by # 0 /\ last.op \in {"Close", "Sync"} /\ handle = "built")
        => CloseInvocations = 1

\* a second Close call, which skipped the once, returned after a direct
\* Sync had closed the transport
C2_Witness ==
  /\ last.by # 0 /\ last.op = "Close" /\ last.stage = 0
  /\ handle = "built" /\ once = "done"
  /\ closedBy = "Sync"
  /\ transport.closeCalls = 1

\* C3: all Close calls on one handle return the same outcome.
C3_SameOutcome == Cardinality(closeRets) <= 1

\* the executing Close call returned in the last step although the
\* transport's Close, started by it, had not returned
ClosedOnHang ==
  /\ last.by # 0 /\ last.op = "Close" /\ last.stage = 2
  /\ variant = "atomic" /\ closedBy = "Close"
  /\ bg \in {"spawned", "inClose"}

\* C4: atomic variant: a Close call returns even when the transport's
\* Close never does, and the call that ran the shutdown then returns the
\* flush-timeout error.
C4_CloseReturnsOnHang ==
  /\ \A t \in Threads :
        (variant = "atomic" /\ g[t].op = "Close") ~> (g[t].pc = "idle")
  /\ [](ClosedOnHang =>
          last.ret.err = Wrap("zap sync failed", ErrFlushTimeout))

\* the Close call that ran the shutdown returned while the transport was
\* still inside its Close
C4_Witness ==
  /\ ClosedOnHang /\ bg = "inClose"
  /\ last.ret.err # NoErr
  /\ transport.closeCalls = 1

\* C5 (the case it speaks of): the second step of Close, l.fluent.Sync(),
\* never returns an error, so the two steps never both fail.
C5_SecondStepNeverFails ==
  /\ Len(syncErrs) <= 2
  /\ Len(syncErrs) = 2 => syncErrs[2] = NoErr
  /\ \A t \in Threads :
        (g[t].op = "Close" /\ g[t].stage = 2) => g[t].pc = "sEnter"

\* both steps of a Close have run and the first one failed
C5_FirstStepFailed == Len(syncErrs) = 2 /\ syncErrs[1] # NoErr

\* the payloads of Payloads that are no JSON object and not null
Undecodable ==
  { <<LB, Str("message"), COLON, Str("m")>>, <<LSQ, Num("1"), RSQ>> }

\* the record a leveled call at lvl hands over, written out key by key
FacadeRecord(v, lvl) ==
  [k \in {"severity", "message", "goroutine",
          IF v = "atomic" THEN "timestamp" ELSE "logging_timestamp"} |->
     CASE k = "severity"  -> <<"string", LevelString(lvl)>>
       [] k = "message"   -> <<"string", "m">>
       [] k = "goroutine" -> <<"float64", "1">>
       [] OTHER           -> <<"string", "T">>]

\* what call o with bytes p is to post: the decoded input
DecodedInput(o, v, p) ==
  IF o \in LevelNames
  THEN [isNil |-> FALSE, rec |-> FacadeRecord(v, LevelOfCall(o))]
  ELSE IF p = <<NULL>>
  THEN [isNil |-> TRUE, rec |-> <<>>]
  ELSE [isNil |-> FALSE, rec |-> [a |-> <<"string", "x">>]]

\* C6: a Write on an open sink whose bytes decode makes exactly one
\* PostWithTime call, with the configured tag and the decoded input as the
\* record, and none after a failed post; a Write whose bytes do not
\* decode makes none.
C6_OnePostPerWrite ==
  /\ \A t \in Threads :
        /\ g[t].nposts <= 1
        /\ g[t].pc = "wPost" =>
              g[t].nposts = 0 /\ g[t].buf \notin Undecodable
        /\ g[t].pc = "wInPost" => g[t].nposts = 1
  /\ lastPost.by # 0 =>
        LET t == lastPost.by
            d == DecodedInput(g[t].op, variant, g[t].buf)
        IN  /\ g[t].pc = "wInPost"
            /\ lastPost.tag = sink.tag
            /\ sink.tag \in {"app.logs", "svc", "service.metrics"}
            /\ lastPost.isNil = d.isNil
            /\ lastPost.rec = d.rec
  /\ WriteReturned =>
        IF last.ret = ClosedRet
        THEN last.nposts = 0
        ELSE IF last.buf \in Undecodable
        THEN last.nposts = 0 /\ last.post = "none"
        ELSE last.nposts = 1 /\ last.post \in {"ok", "failed"}

\* a direct Write of the object with the repeated key returned after its
\* one post had failed
C6_Witness ==
  /\ WriteReturned /\ last.op = "Write"
  /\ last.buf \notin Undecodable /\ last.buf # <<NULL>>
  /\ last.post = "failed" /\ last.nposts = 1
  /\ sink.tag = "service.metrics"

\* C7: Write returns (len(p), nil) exactly when the bytes decoded and the
\* post succeeded; in every other case it returns 0 and a non-nil error.
C7_AllOrNothing ==
  WriteReturned =>
    LET sent == last.buf \notin Undecodable /\ last.post = "ok"
    IN  /\ Len(last.buf) > 0
        /\ sent <=> last.ret = [n |-> Len(last.buf), err |-> NoErr]
        /\ ~sent => last.ret.n = 0 /\ last.ret.err # NoErr
        /\ last.post = "failed" =>
              last.ret.err = Wrap(DeliveryMsg(variant), ErrTransport)
        /\ last.buf \in Undecodable =>
              last.ret.err \in {ErrDecode, ErrLoggerClosed}

\* a Write whose post failed returned 0 and the wrapped transport error
C7_Witness ==
  /\ WriteReturned /\ last.post = "failed"
  /\ last.ret = [n |-> 0,
                 err |-> <<"log delivery failed", "transport error">>]

\* C8: of the leveled calls made on a handle whose core has minimum level
\* L, exactly those at a level >= L are handed to the sink and, while it
\* is open, posted; a call below L reaches neither the sink nor the
\* transport.
C8_LevelFilter ==
  /\ (handle = "built" /\ variant = "atomic") =>
        /\ parsed.arg = <<"D","E","B","U","G">> => core.level = DebugLevel
        /\ parsed.arg = <<"W","A","R","N","I","N","G">> =>
              core.level = WarnLevel
  /\ (handle = "built" /\ variant = "mutex") => core.level = InfoLevel
  /\ \A t \in Threads :
        (g[t].op \in LevelNames /\ InPost(t)) =>
            LevelOfCall(g[t].op) >= core.level
  /\ (lastPost.by # 0 /\ g[lastPost.by].op \in LevelNames) =>
        /\ LevelOfCall(g[lastPost.by].op) >= core.level
        /\ lastPost.rec["severity"] = <<"string", g[lastPost.by].op>>
  /\ (last.by # 0 /\ last.op \in LevelNames) =>
        IF LevelOfCall(last.op) < core.level
        THEN last.buf = <<>> /\ last.nposts = 0 /\ last.post = "none"
        ELSE /\ last.buf # <<>>
             /\ last.nposts = (IF last.ret = ClosedRet THEN 0 ELSE 1)

\* on a handle built at level warn a Warnw call returned with its record
\* posted
C8_Witness ==
  /\ variant = "atomic" /\ core.level = WarnLevel
  /\ last.by # 0 /\ last.op = "warn"
  /\ last.nposts = 1 /\ last.post = "ok"

\* the level the claim gives the string s
ClaimedLevel(s) ==
  CASE s = <<"d","e","b","u","g">> -> DebugLevel
    [] s = <<"i","n","f","o">>     -> InfoLevel
    [] s = <<"w","a","r","n">>     -> WarnLevel
    [] s = <<"e","r","r","o","r">> -> ErrorLevel
    [] s = <<"f","a","t","a","l">> -> FatalLevel
    [] s = <<"W","A","R","N","I","N","G">> -> WarnLevel
    [] OTHER -> DebugLevel

\* C9: parseLogLevel gives a canonical level name, matched case-sensitively,
\* its level, gives "WARNING" the warn level and gives every other string
\* the debug level.
C9_ParseLogLevel ==
  parsed.called => parsed.level = ClaimedLevel(parsed.arg)

\* C10: a constructor returns either a handle with the transport, the sink
\* and the core all built and no error, or no handle and an error with
\* nothing built; never a handle with a part missing.
C10_NoPartialHandle ==
  /\ handle = "none" =>
        ~constructErr /\ ~transport.built /\ ~sink.built /\ ~core.built
  /\ handle = "nil" =>
        /\ constructErr
        /\ ~transport.built /\ ~sink.built /\ ~core.built /\ ~parsed.called
        /\ \A t \in Threads : g[t].pc = "idle"
  /\ handle = "built" =>
        /\ ~constructErr
        /\ transport.built /\ sink.built /\ core.built
        /\ sink.tag # "" /\ sink.timeout # ZeroDuration
  /\ constructErr <=> handle = "nil"

\* NewSugaredLogger returned no handle and an error
C10_Witness ==
  /\ variant = "atomic" /\ handle = "nil" /\ constructErr
  /\ ~transport.built /\ ~sink.built

\* the values of EnvValues that are no integer, no duration, no boolean
\* (for either boolean parser) and no network type
NotAnInt == {"tcp", "unix", "udp", "abc", "3s", "1.5m", "TRUE", "t"}
NotADuration == {"tcp", "unix", "udp", "abc", "8080", "-1", "TRUE", "t"}
NotABool == {"tcp", "unix", "udp", "abc", "8080", "-1", "3s", "1.5m"}
NotANetwork == {"udp", "abc", "8080", "-1", "3s", "1.5m", "TRUE", "t"}

\* the variables program prog maps to a field of the given type under
\* environment env; cmd/worker reads the port for tcp and tls only
IntVars(prog, env) ==
  IF prog = "worker"
  THEN {"FLUENT_BUFFER_LIMIT", "FLUENT_ASYNC_RECONNECT_INTERVAL"}
         \cup (IF env["FLUENT_NETWORK"] = "unix" THEN {} ELSE {"FLUENT_PORT"})
  ELSE {"FLUENT_PORT", "FLUENT_BUFFER_LIMIT", "FLUENT_MAX_RETRY",
        "FLUENT_RETRY_WAIT"}

DurationVars(prog) ==
  IF prog = "worker" THEN {"FLUENT_TIMEOUT", "FLUENT_WRITE_TIMEOUT"} ELSE {}

BoolVars(prog) ==
  IF prog = "worker"
  THEN {"FLUENT_ASYNC", "FLUENT_FORCE_STOP_ASYNC_SEND",
        "FLUENT_SUB_SECOND_PRECISION", "FLUENT_MARSHAL_AS_JSON",
        "FLUENT_REQUEST_ACK", "FLUENT_TLS_INSECURE_SKIP_VERIFY"}
  ELSE {"FLUENT_ASYNC"}

NetworkVars(prog) == IF prog = "worker" THEN {"FLUENT_NETWORK"} ELSE {}

\* some mapped variable of prog holds a value invalid for its field's type
HasInvalidValue(prog, env) ==
  \/ \E v \in IntVars(prog, env) : env[v] \in NotAnInt
  \/ \E v \in DurationVars(prog) : env[v] \in NotADuration
  \/ \E v \in BoolVars(prog) : env[v] \in NotABool
  \/ \E v \in NetworkVars(prog) : env[v] \in NotANetwork

\* C11: a program started with an invalid value in a variable it maps to
\* a configuration field fails to start; the value is neither replaced by
\* a default nor ignored.
C11_InvalidEnvRejected ==
  (startup.prog # "none" /\ HasInvalidValue(startup.prog, startup.env))
     => ~startup.ok /\ handle # "built"

\* C11, cmd/worker alone: loadFluentConfigFromEnv returns an error for
\* every invalid value, and main panics before it makes a logger
C11_WorkerRejects ==
  (startup.prog = "worker" /\ HasInvalidValue("worker", startup.env))
     => /\ ~startup.loaded /\ ~startup.ok /\ startup.cfg = ZeroConfig
        /\ handle = "none" /\ ~sink.built

\* C12: atomic variant: no Write calls PostWithTime once the closed flag
\* is set, whatever the interleaving of Write with Sync and Close.
C12_NoPostAfterClosed ==
  (variant = "atomic" /\ lastPost.by # 0) => ~lastPost.closed

\* C13: while Close is in its first step, the facade's sync, Close has
\* made neither the closed-flag transition nor the transport's Close:
\* both belong to its second step.
C13_SinkOpenDuringFacadeSync ==
  \A t \in Threads :
    (g[t].op = "Close" /\ g[t].stage = 1) =>
        /\ closedBy # "Close"
        /\ closedBy = "none" => ~sink.closed /\ transport.closeCalls = 0

\* C14: in each variant, while one goroutine is inside PostWithTime and
\* the sink is open, a Write by another goroutine can pass the closed
\* check at once: it does not have to wait for the post to return.
C14_WritesNotSerialized ==
  \A t \in Threads, u \in Threads :
    (/\ t # u
     /\ g[t].pc = "wInPost"
     /\ CanStart(u)
     /\ ~sink.closed)
       => ENABLED WriteCall(u, <<NULL>>)

\* atomic variant: two goroutines are inside PostWithTime at once
C14_BothInPost ==
  /\ variant = "atomic"
  /\ \A t \in Threads : g[t].pc = "wInPost"

\* C15: mutex variant: every Close call returns, also when the transport's
\* Close never does (the shutdown timeout then ends the wait).
C15_MutexCloseReturns ==
  \A t \in Threads :
    (variant = "mutex" /\ g[t].op = "Close") ~> (g[t].pc = "idle")

\* the goroutine Sync started only moves forward: from started to inside
\* the transport's Close to finished
BgForward ==
  /\ bg = "spawned" => bg' \in {"spawned", "inClose"}
  /\ bg = "inClose" => bg' \in {"inClose", "done"}
  /\ bg = "done" => bg' = "done"

\* a Sync returned the flush-timeout error in this step
TimedOutNow ==
  \E t \in Threads :
    /\ g[t].pc = "sSelect"
    /\ g'[t].pc # "sSelect"
    /\ \/ last'.by = t /\ last'.ret.err \in
            {ErrFlushTimeout, Wrap("zap sync failed", ErrFlushTimeout)}
       \/ g'[t].cerr = Wrap("zap sync failed", ErrFlushTimeout)

\* C16: atomic variant: a Sync that returns the flush-timeout error leaves
\* the goroutine it started alone; that goroutine is never cancelled, it
\* finishes as soon as the transport's Close returns, the closed flag
\* stays set and the transport's Close is not started a second time.
C16_BackgroundCloseContinues ==
  /\ [][variant = "atomic" => BgForward]_vars
  /\ [][(variant = "atomic" /\ TimedOutNow) =>
          /\ bg' = bg /\ bg \in {"spawned", "inClose", "done"}
          /\ sink.closed /\ sink'.closed
          /\ transport' = transport]_vars
  /\ [][sink.closed => sink'.closed]_vars
  /\ [](variant = "atomic" =>
          /\ bg = "spawned" => ENABLED BgCloseEnter
          /\ bg = "inClose" => ENABLED BgCloseReturn
          /\ bg # "none" => sink.closed
          /\ transport.closeCalls <= 1
          /\ bg \in {"inClose", "done"} <=> transport.closeCalls = 1)

\* Close's first step returned the flush-timeout error and the transport's
\* Close, started by it, has since returned
C16_Witness ==
  /\ variant = "atomic"
  /\ syncErrs # <<>> /\ syncErrs[1] = ErrFlushTimeout
  /\ bg = "done"
  /\ sink.closed /\ transport.closeCalls = 1

\* goroutine t's log call was accepted in this step: it passed the level
\* check, the closed check and the decoding, and has its record to post
AcceptedNow(t) == g[t].pc = "idle" /\ g'[t].pc = "wPost"

\* the transport's PostWithTime is invoked for goroutine t in this step
PostedNow(t) == lastPost'.by = t

\* C17: the PostWithTime invocations of one goroutine are its accepted
\* log calls, in order, whatever the other goroutines do: a call is
\* accepted only when the goroutine has no record waiting, the accepted
\* call keeps its record until it is posted, the post carries that record
\* and is the only one of the call, and the steps of other goroutines
\* leave the waiting record alone.
C17_PostsFollowCallOrder ==
  [][\A t \in Threads :
       /\ AcceptedNow(t) => g'[t].nposts = 0 /\ ~PostedNow(t)
       /\ g[t].pc = "wPost" =>
            /\ g'[t].pc \in {"wPost", "wInPost"}
            /\ g'[t].buf = g[t].buf
            /\ g'[t].pc = "wInPost" <=> PostedNow(t)
       /\ PostedNow(t) =>
            /\ g[t].pc = "wPost" /\ g[t].nposts = 0
            /\ g'[t].nposts = 1
            /\ lastPost'.rec = Unmarshal(g[t].buf).m
            /\ lastPost'.isNil = Unmarshal(g[t].buf).isNil
       /\ g[t].pc = "wInPost" =>
            \/ g'[t] = g[t]
            \/ g'[t] = Idle /\ last'.by = t /\ last'.nposts = 1
     ]_vars

\* one goroutine's record is posted while another goroutine's accepted
\* call still waits to post its own
C17_Witness ==
  \E t \in Threads, u \in Threads :
    /\ t # u
    /\ lastPost.by = t /\ g[t].pc = "wInPost" /\ g[t].nposts = 1
    /\ g[u].pc = "wPost" /\ g[u].buf # g[t].buf

\* this step belongs to a Write or a leveled log call of goroutine t:
\* its start, its post, or its return
WriteStep(t) ==
  \/ g[t].pc = "idle" /\ g'[t].pc = "wPost"
  \/ g[t].pc \in {"wPost", "wInPost"} /\ g'[t] # g[t]
  \/ last'.by = t /\ last'.op \notin {"Sync", "Close"}

\* in this step a Sync, called directly or by Close, passes its closed
\* check and takes the close on itself
SyncClaimsNow ==
  /\ closedBy = "none" /\ closedBy' \in {"Sync", "Close"}
  /\ \E t \in Threads :
       /\ g[t].pc \in {"idle", "sEnter"}
       /\ g'[t].pc = ClosePc
       /\ g'[t].op = closedBy'

\* C18: in both variants the closed flag is open until a Sync sets it:
\* open before and right after construction, set only in a step in which
\* a Sync passes its closed check, left as it is by every step of a Write
\* whatever the Write returns, set at most once, and never reset.
C18_ClosedFlagLifecycle ==
  /\ [](handle # "built" => ~sink.closed)
  /\ [](sink.closed <=> closedBy # "none")
  /\ [][handle # handle' => ~sink'.closed]_vars
  /\ [][sink'.closed # sink.closed =>
          ~sink.closed /\ sink'.closed /\ SyncClaimsNow]_vars
  /\ [][closedBy # "none" => closedBy' = closedBy /\ sink'.closed]_vars
  /\ [][\A t \in Threads : WriteStep(t) => sink' = sink]_vars

\* Close's Sync set the flag while a Write was inside PostWithTime; that
\* Write's delivery then failed and the flag is as Sync left it
C18_Witness ==
  /\ sink.closed /\ closedBy = "Close"
  /\ last.by # 0 /\ last.op = "Write" /\ last.post = "failed"

\* the goroutines inside a call of the transport: PostWithTime or Close
InTransport == {t \in Threads : g[t].pc \in {"wInPost", "sInClose"}}

\* C19: mutex variant: at most one goroutine is inside the transport's
\* PostWithTime or Close, it is the one holding the mutex, and
\* PostWithTime is never entered once the transport's Close was invoked.
C19_MutexExcludesTransportCalls ==
  variant = "mutex" =>
    /\ Cardinality(InTransport) <= 1
    /\ \A t \in Threads :
         g[t].pc \in {"wPost", "wInPost", "sClose", "sInClose"} => mu = t
    /\ \A t \in Threads :
         (g[t].pc = "wInPost" /\ lastPost.by = t) =>
           transport.closeCalls = 0 /\ ~sink.closed
    /\ transport.closeCalls > 0 =>
         \A t \in Threads : g[t].pc \notin {"wPost", "wInPost"}

\* a Write is inside PostWithTime under the mutex while a Close has
\* reached the Sync that has to wait for it
C19_Witness ==
  /\ variant = "mutex"
  /\ \E t \in Threads, u \in Threads :
       /\ t # u
       /\ g[t].pc = "wInPost" /\ mu = t
       /\ g[u].op = "Close" /\ g[u].pc = "sEnter"

\* goroutine t starts a Write or a leveled log call in this step
LogStartsNow(t) ==
  /\ g[t].pc = "idle"
  /\ \/ g'[t].pc # "idle" /\ g'[t].op \notin {"Sync", "Close"}
     \/ g'[t].pc = "idle" /\ last'.by = t /\ last'.op \notin {"Sync", "Close"}

\* the handle's promoted Sync, not Close, took the close on itself
PromotedSyncClosed == variant = "atomic" /\ closedBy = "Sync"

\* C20: SugaredLogger: the promoted Sync() runs the sink's Sync: it sets
\* the closed flag and has the transport's Close invoked once; every log
\* call that starts afterwards returns at once without a transport post,
\* its Write returning (0, ErrLoggerClosed), and a later Close() goes
\* through both its Syncs without an error and without invoking the
\* transport's Close again.
C20_PromotedSyncCloses ==
  /\ [](PromotedSyncClosed =>
          /\ sink.closed
          /\ bg \in {"spawned", "inClose", "done"}
          /\ bg = "spawned" =>
               transport.closeCalls = 0 /\ ENABLED BgCloseEnter
          /\ bg # "spawned" => transport.closeCalls = 1
          /\ \A i \in 1..Len(syncErrs) : syncErrs[i] = NoErr)
  /\ [][PromotedSyncClosed =>
          \A t \in Threads :
            LogStartsNow(t) =>
              /\ g'[t] = Idle /\ last'.by = t
              /\ lastPost' = NoPost
              /\ last'.nposts = 0 /\ last'.post = "none"
              /\ (last'.op = "Write" \/ last'.buf # <<>>) =>
                   last'.ret = ClosedRet]_vars
  /\ [][PromotedSyncClosed =>
          \A t \in Threads :
            (g[t].op = "Close" /\ g'[t] # g[t]) =>
              transport' = transport /\ bg' = bg /\ sink' = sink]_vars

\* after the promoted Sync closed the sink a Close() ran to its end, the
\* transport's Close was invoked once, and a leveled call made after both
\* was dropped by the sink
C20_Witness ==
  /\ PromotedSyncClosed /\ once = "done"
  /\ Len(syncErrs) = 2
  /\ transport.closeCalls = 1
  /\ last.by # 0 /\ last.op \in LevelNames /\ last.buf # <<>>
  /\ last.ret = ClosedRet
====
